---- MODULE Spec2Model ----
(***************************************************************************)
(* SHA-256 and SHA256d of src/crypto/randomx/sha256/sha256.c: the block    *)
(* compression SHA256_Transform, the padding SHA256_Pad, the streaming     *)
(* context (SHA256_Init, _SHA256_Update, _SHA256_Final) and the one-shot   *)
(* entry points SHA256_Buf and SHA256d_Buf.                                *)
(*                                                                         *)
(* A uint32_t is the pair <<hi, lo>> of its 16-bit halves (TLC's integers  *)
(* are 32-bit signed, so a uint32_t does not fit in one); all arithmetic   *)
(* on it is modulo 2^32.  A uint8_t is a number in 0..255, a byte array a  *)
(* function from 0-based indices, a message a sequence of bytes.           *)
(***************************************************************************)
EXTENDS Integers, Sequences, FiniteSets, TLC

(***************************************************************************)
(* Bounds of the model.                                                    *)
(***************************************************************************)
\* the number of _SHA256_Update calls made on one context
MaxUpdates == 3

\* the number of blocks compressed in a row by SpecT
MaxChain == 3

\* the values an indeterminate byte (of an uninitialised local, or of the
\* memory that follows a buffer) may hold
Junk == {0, 165}

\* the message of n bytes hashed by the model
Msg(n) == [i \in 1..n |-> (i * 37 + 11) % 251]

\* the messages hashed by Spec: the empty one, "abc", and the lengths around
\* the padding and block boundaries
Messages == {<<97, 98, 99>>} \cup {Msg(n) : n \in {0, 55, 56, 63, 64, 65, 120, 128}}

\* the chunk lengths offered to _SHA256_Update by Spec, besides the whole rest
\* of the message
ChunkLens == {0, 1, 55, 64}

\* the messages hashed twice by SpecD
MessagesD == {<<97, 98, 99>>} \cup {Msg(n) : n \in {0, 1, 31, 32, 33, 64, 70}}

(***************************************************************************)
(* Sequencing: F applied to the value of v, with v evaluated first.  A     *)
(* chain of statements "x = f(x); x = g(x); ..." is evaluated statement by *)
(* statement, not as one nested expression.                                *)
(***************************************************************************)
Then(v, F(_)) == CHOOSE r \in {F(x) : x \in {v}} : TRUE

(***************************************************************************)
(* C's operators on uint32_t.                                              *)
(***************************************************************************)
\* one bit operation, given by its truth table tt = <<f(0,0), f(0,1), f(1,0), f(1,1)>>,
\* on the low n bits of a and b
RECURSIVE BitOp(_, _, _, _)
BitOp(tt, a, b, n) ==
  IF n = 0 THEN 0
  ELSE tt[(2 * (a % 2)) + (b % 2) + 1] + 2 * BitOp(tt, a \div 2, b \div 2, n - 1)

\* & | ^ on 4-bit values, tabulated
NibbleAnd == [a \in 0..15 |-> [b \in 0..15 |-> BitOp(<<0, 0, 0, 1>>, a, b, 4)]]
NibbleOr  == [a \in 0..15 |-> [b \in 0..15 |-> BitOp(<<0, 1, 1, 1>>, a, b, 4)]]
NibbleXor == [a \in 0..15 |-> [b \in 0..15 |-> BitOp(<<0, 1, 1, 0>>, a, b, 4)]]

\* & | ^ on bytes, tabulated from the 4-bit tables
ByteAnd ==
  [a \in 0..255 |-> [b \in 0..255 |->
     (16 * NibbleAnd[a \div 16][b \div 16]) + NibbleAnd[a % 16][b % 16]]]
ByteOr ==
  [a \in 0..255 |-> [b \in 0..255 |->
     (16 * NibbleOr[a \div 16][b \div 16]) + NibbleOr[a % 16][b % 16]]]
ByteXor ==
  [a \in 0..255 |-> [b \in 0..255 |->
     (16 * NibbleXor[a \div 16][b \div 16]) + NibbleXor[a % 16][b % 16]]]

\* a bytewise table applied to 16-bit values
Half(tab, a, b) == (256 * tab[a \div 256][b \div 256]) + tab[a % 256][b % 256]

\* x & y, x | y, x ^ y, ~x
And(x, y) == <<Half(ByteAnd, x[1], y[1]), Half(ByteAnd, x[2], y[2])>>
Or(x, y)  == <<Half(ByteOr, x[1], y[1]), Half(ByteOr, x[2], y[2])>>
Xor(x, y) == <<Half(ByteXor, x[1], y[1]), Half(ByteXor, x[2], y[2])>>

\* x + y on uint32_t: the carry out of bit 31 is dropped
Add(x, y) ==
  LET lo == x[2] + y[2]
  IN <<(x[1] + y[1] + (lo \div 65536)) % 65536, lo % 65536>>

\* x << n on uint32_t, 0 < n < 32: the bits shifted out are dropped
SHL(x, n) ==
  IF n >= 16 THEN <<(x[2] * (2^(n - 16))) % 65536, 0>>
  ELSE <<((x[1] * (2^n)) % 65536) + (x[2] \div (2^(16 - n))), (x[2] * (2^n)) % 65536>>

(***************************************************************************)
(* Elementary functions used by SHA256.                                    *)
(***************************************************************************)
\* a Ch that selects y where the code's selects z
ChSelectsY(x, y, z) == Xor(And(x, Xor(y, z)), y)

Ch(x, y, z) == Xor(And(x, Xor(y, z)), z)

Maj(x, y, z) == Or(And(x, Or(y, z)), And(y, z))

\* x >> n, 0 < n < 32
SHR(x, n) ==
  IF n >= 16 THEN <<0, x[1] \div (2^(n - 16))>>
  ELSE <<x[1] \div (2^n), (x[2] \div (2^n)) + (x[1] % (2^n)) * (2^(16 - n))>>

ROTR(x, n) == Or(SHR(x, n), SHL(x, 32 - n))

\* an S0 whose last rotation is by 23
S0Rot23(x) == Xor(Xor(ROTR(x, 2), ROTR(x, 13)), ROTR(x, 23))

S0(x) == Xor(Xor(ROTR(x, 2), ROTR(x, 13)), ROTR(x, 22))

S1(x) == Xor(Xor(ROTR(x, 6), ROTR(x, 11)), ROTR(x, 25))

s0(x) == Xor(Xor(ROTR(x, 7), ROTR(x, 18)), SHR(x, 3))

s1(x) == Xor(Xor(ROTR(x, 17), ROTR(x, 19)), SHR(x, 10))

\* SHA256 round constants
Krnd ==
  [i \in 0..63 |-> <<
    <<\h428a, \h2f98>>, <<\h7137, \h4491>>, <<\hb5c0, \hfbcf>>, <<\he9b5, \hdba5>>,
    <<\h3956, \hc25b>>, <<\h59f1, \h11f1>>, <<\h923f, \h82a4>>, <<\hab1c, \h5ed5>>,
    <<\hd807, \haa98>>, <<\h1283, \h5b01>>, <<\h2431, \h85be>>, <<\h550c, \h7dc3>>,
    <<\h72be, \h5d74>>, <<\h80de, \hb1fe>>, <<\h9bdc, \h06a7>>, <<\hc19b, \hf174>>,
    <<\he49b, \h69c1>>, <<\hefbe, \h4786>>, <<\h0fc1, \h9dc6>>, <<\h240c, \ha1cc>>,
    <<\h2de9, \h2c6f>>, <<\h4a74, \h84aa>>, <<\h5cb0, \ha9dc>>, <<\h76f9, \h88da>>,
    <<\h983e, \h5152>>, <<\ha831, \hc66d>>, <<\hb003, \h27c8>>, <<\hbf59, \h7fc7>>,
    <<\hc6e0, \h0bf3>>, <<\hd5a7, \h9147>>, <<\h06ca, \h6351>>, <<\h1429, \h2967>>,
    <<\h27b7, \h0a85>>, <<\h2e1b, \h2138>>, <<\h4d2c, \h6dfc>>, <<\h5338, \h0d13>>,
    <<\h650a, \h7354>>, <<\h766a, \h0abb>>, <<\h81c2, \hc92e>>, <<\h9272, \h2c85>>,
    <<\ha2bf, \he8a1>>, <<\ha81a, \h664b>>, <<\hc24b, \h8b70>>, <<\hc76c, \h51a3>>,
    <<\hd192, \he819>>, <<\hd699, \h0624>>, <<\hf40e, \h3585>>, <<\h106a, \ha070>>,
    <<\h19a4, \hc116>>, <<\h1e37, \h6c08>>, <<\h2748, \h774c>>, <<\h34b0, \hbcb5>>,
    <<\h391c, \h0cb3>>, <<\h4ed8, \haa4a>>, <<\h5b9c, \hca4f>>, <<\h682e, \h6ff3>>,
    <<\h748f, \h82ee>>, <<\h78a5, \h636f>>, <<\h84c8, \h7814>>, <<\h8cc7, \h0208>>,
    <<\h90be, \hfffa>>, <<\ha450, \h6ceb>>, <<\hbef9, \ha3f7>>, <<\hc671, \h78f2>>
  >>[i + 1]]

\* Magic initialization constants
initial_state ==
  [i \in 0..7 |-> <<
    <<\h6a09, \he667>>, <<\hbb67, \hae85>>, <<\h3c6e, \hf372>>, <<\ha54f, \hf53a>>,
    <<\h510e, \h527f>>, <<\h9b05, \h688c>>, <<\h1f83, \hd9ab>>, <<\h5be0, \hcd19>>
  >>[i + 1]]

(***************************************************************************)
(* sysendian.h: the big-endian codec.                                      *)
(***************************************************************************)
\* the uint32_t held big-endian in p[off .. off+3]
be32dec(p, off) == <<(256 * p[off]) + p[off + 1], (256 * p[off + 2]) + p[off + 3]>>

\* the 4 bytes holding the uint32_t x big-endian
be32enc(x) == <<x[1] \div 256, x[1] % 256, x[2] \div 256, x[2] % 256>>

\* the 8 bytes holding the uint64_t x big-endian; this model keeps x below 2^31
be64enc(x) ==
  <<0, 0, 0, 0, x \div 16777216, (x \div 65536) % 256, (x \div 256) % 256, x % 256>>

(***************************************************************************)
(* The scratch area uint32_t tmp32[72] of SHA256_Buf: W = &tmp32[0] is the *)
(* message schedule, S = &tmp32[64] the working variables.  A transform in *)
(* progress is the record T:                                               *)
(*   state    the uint32_t state[8] it updates                             *)
(*   tmp32    the 72 scratch words                                         *)
(*   written  the indices of tmp32 assigned by this transform so far        *)
(*   stray    an access to W went outside W[0..63]                          *)
(*   unset    a word of W was read that was never assigned                  *)
(***************************************************************************)
\* the value read from W[k]; what a read past tmp32 yields is not defined,
\* and the transform is marked stray by ReadW
ValW(T, k) == IF k \in 0..71 THEN T.tmp32[k] ELSE <<0, 0>>

\* the marks left by reading W[k]
ReadW(T, k) ==
  [T EXCEPT !.stray = @ \/ k \notin 0..63,
            !.unset = @ \/ (k \in 0..71 /\ k \notin T.written)]

\* W[k] = v; W[64..71] are the working variables S[0..7]
StoreW(T, k, v) ==
  [T EXCEPT !.tmp32 = IF k \in 0..71 THEN [@ EXCEPT ![k] = v] ELSE @,
            !.written = IF k \in 0..71 THEN @ \cup {k} ELSE @,
            !.stray = @ \/ k \notin 0..63]

\* Decode a big-endian length len*8 vector of (uint8_t) into a length
\* len*2 vector of (uint32_t), at the start of W
be32dec_vect(T, src, len) ==
  [T EXCEPT !.tmp32 = [k \in 0..71 |-> IF k < 2 * len THEN be32dec(src, 4 * k) ELSE @[k]],
            !.written = @ \cup 0..(2 * len - 1)]

\* Encode a length len*2 vector of (uint32_t) into a length len*8 vector of
\* (uint8_t) in big-endian form
be32enc_vect(src, len) ==
  [k \in 0..(8 * len - 1) |-> be32enc(src[k \div 4])[(k % 4) + 1]]

\* SHA256 round function on the working variables at tmp32[64 + a .. 64 + h]
RND(T, a, b, c, d, e, f, g, h, k) ==
  LET V == T.tmp32
      h1 == Add(V[64 + h], Add(Add(S1(V[64 + e]), Ch(V[64 + e], V[64 + f], V[64 + g])), k))
      d1 == Add(V[64 + d], h1)
      h2 == Add(h1, Add(S0(V[64 + a]), Maj(V[64 + a], V[64 + b], V[64 + c])))
  IN [T EXCEPT !.tmp32 = [@ EXCEPT ![64 + d] = d1, ![64 + h] = h2]]

\* Adjusted round function for rotating state
RNDr(T, i, ii) ==
  LET R == RND(T, (64 - i) % 8, (65 - i) % 8, (66 - i) % 8, (67 - i) % 8,
                  (68 - i) % 8, (69 - i) % 8, (70 - i) % 8, (71 - i) % 8,
                  Add(ValW(T, i + ii), Krnd[i + ii]))
  IN ReadW(R, i + ii)

\* Message schedule computation
MSCH(T, ii, i) ==
  LET v == Add(Add(Add(s1(ValW(T, i + ii + 14)), ValW(T, i + ii + 9)),
                   s0(ValW(T, i + ii + 1))), ValW(T, i + ii))
  IN StoreW(ReadW(ReadW(ReadW(ReadW(T, i + ii + 14), i + ii + 9), i + ii + 1), i + ii),
            i + ii + 16, v)

\* RNDr(S, W, lo, i); ...; RNDr(S, W, hi - 1, i), in this order
RECURSIVE RNDrs(_, _, _, _)
RNDrs(T, lo, hi, i) ==
  IF hi - lo = 1 THEN RNDr(T, lo, i)
  ELSE Then(RNDrs(T, lo, (lo + hi) \div 2, i),
            LAMBDA U : RNDrs(U, (lo + hi) \div 2, hi, i))

\* MSCH(W, lo, i); ...; MSCH(W, hi - 1, i), in this order
RECURSIVE MSCHs(_, _, _, _)
MSCHs(T, lo, hi, i) ==
  IF hi - lo = 1 THEN MSCH(T, lo, i)
  ELSE Then(MSCHs(T, lo, (lo + hi) \div 2, i),
            LAMBDA U : MSCHs(U, (lo + hi) \div 2, hi, i))

\* a loop that is not left before the message schedule of its last pass
MixBreakNever(i) == FALSE

\* the loop is left after the rounds of this pass
MixBreak(i) == i = 48

\* 3. Mix: the passes of the loop from i on
RECURSIVE Mix(_, _)
Mix(T, i) ==
  IF i < 64
  THEN Then(RNDrs(T, 0, 16, i),
            LAMBDA R : IF MixBreak(i) THEN R
                       ELSE Then(MSCHs(R, 0, 16, i), LAMBDA U : Mix(U, i + 16)))
  ELSE T

\* SHA256 block compression function.  The 256-bit state is transformed via
\* the 512-bit input block to produce a new state.
SHA256_Transform(state, block, scratch) ==
  Then(\* 1. Prepare the first part of the message schedule W.
       be32dec_vect([state |-> state, tmp32 |-> scratch.tmp32,
                     written |-> {}, stray |-> scratch.stray,
                     unset |-> scratch.unset],
                    block, 8),
       LAMBDA T1 :
         Then(\* 2. Initialize working variables.
              [T1 EXCEPT !.tmp32 = [k \in 0..71 |-> IF k >= 64 THEN state[k - 64] ELSE @[k]],
                         !.written = @ \cup 64..71],
              LAMBDA T2 :
                Then(\* 3. Mix.
                     Mix(T2, 0),
                     \* 4. Mix local working variables into global state.
                     LAMBDA T3 :
                       [T3 EXCEPT !.state = [j \in 0..7 |->
                                               Add(state[j], T3.tmp32[64 + j])]])))

(***************************************************************************)
(* A hashing in progress is the record X:                                  *)
(*   ctx      the SHA256_CTX: state[8], count (bits), buf[64]              *)
(*   scratch  tmp32[72] with the marks left by the transforms run on it:   *)
(*            written (by the last one), stray and unset (by any)          *)
(*   blocks   the blocks handed to SHA256_Transform so far, in order       *)
(*   padruns  the calls of SHA256_Transform made by SHA256_Pad             *)
(*   bufw     the indices of ctx->buf assigned since SHA256_Init           *)
(*   bufStray a copy into ctx->buf went outside buf[0..63]                 *)
(*   bufUnset a block was compressed from ctx->buf with a byte of it never *)
(*            assigned since SHA256_Init                                   *)
(*   srcRead  the number of leading bytes of the input of the current      *)
(*            _SHA256_Update that were read                                *)
(***************************************************************************)
PAD == [k \in 0..63 |-> IF k = 0 THEN 128 ELSE 0]

\* the n bytes at p[off], p[off + 1], ... of a 0-based array p
Bytes(p, off, n) == [j \in 1..n |-> p[off + j - 1]]

\* the n bytes at offset src of the input, a sequence of bytes
Input(in, src, n) == [j \in 1..n |-> in[src + j]]

\* memcpy(&ctx->buf[off], bytes, n) and memset: n is a size_t, so a negative n
\* stands for a length near 2^64
BufWrite(X, off, bytes, n) ==
  [X EXCEPT !.ctx.buf = [k \in 0..63 |->
                           IF k >= off /\ k < off + n THEN bytes[k - off + 1] ELSE @[k]],
            !.bufw = @ \cup {k \in 0..63 : k >= off /\ (k < off + n \/ n < 0)},
            !.bufStray = @ \/ n < 0 \/ off + n > 64]

\* the n bytes at offset src of the input are read
SrcRead(X, src, n) ==
  [X EXCEPT !.srcRead = IF n > 0 /\ src + n > @ THEN src + n ELSE @]

\* SHA256_Transform(ctx->state, block, &tmp32[0], &tmp32[64]); fromBuf: the
\* block is ctx->buf
Compress(X, block, fromBuf) ==
  Then(SHA256_Transform(X.ctx.state, block, X.scratch),
       LAMBDA T :
         [X EXCEPT !.ctx.state = T.state,
                   !.scratch = [tmp32 |-> T.tmp32, written |-> T.written,
                                stray |-> T.stray, unset |-> T.unset],
                   !.blocks = Append(@, block),
                   !.bufUnset = @ \/ (fromBuf /\ X.bufw # 0..63)])

\* SHA256_Init(ctx): count and state are set, buf is left as it was
SHA256_Init(X) ==
  [X EXCEPT !.ctx.count = 0,
            !.ctx.state = initial_state,
            !.blocks = <<>>, !.padruns = 0, !.bufw = {},
            !.bufStray = FALSE, !.bufUnset = FALSE, !.srcRead = 0]

\* an _SHA256_Update that also only copies a chunk that fills the block
UpdateFitsFull(len, r) == len <= 64 - r

\* Handle the case where we don't need to perform any transforms.
UpdateFits(len, r) == len < 64 - r

\* a loop that leaves a last complete block in the input
MoreBlocksOver(len) == len > 64

\* the condition of the loop over the complete blocks
MoreBlocks(len) == len >= 64

\* Perform complete blocks, then copy left over data into buffer.
RECURSIVE UpdateBlocks(_, _, _, _)
UpdateBlocks(X, in, src, len) ==
  IF MoreBlocks(len)
  THEN Then(Compress(SrcRead(X, src, 64), [k \in 0..63 |-> in[src + k + 1]], FALSE),
            LAMBDA U : UpdateBlocks(U, in, src + 64, len - 64))
  ELSE BufWrite(SrcRead(X, src, len), 0, Input(in, src, len), len)

\* _SHA256_Update(ctx, in, len, tmp32): input len bytes from in into the
\* context.  The model's counts stay far below 2^64.
_SHA256_Update(X0, in, len) ==
  LET X == [X0 EXCEPT !.srcRead = 0]
      \* Number of bytes left in the buffer from previous updates.
      r == (X.ctx.count \div 8) % 64
      \* Update number of bits.
      X1 == [X EXCEPT !.ctx.count = @ + len * 8]
  IN IF len = 0 THEN X
     ELSE IF UpdateFits(len, r)
          THEN BufWrite(SrcRead(X1, 0, len), r, Input(in, 0, len), len)
          ELSE \* Finish the current block.
               Then(BufWrite(SrcRead(X1, 0, 64 - r), r, Input(in, 0, 64 - r), 64 - r),
                    LAMBDA X2 :
                      Then(Compress(X2, X2.ctx.buf, TRUE),
                           LAMBDA X3 : UpdateBlocks(X3, in, 64 - r, len - (64 - r))))

\* a SHA256_Pad that takes the one-block path with 56 bytes buffered
PadFitsAt56(r) == r <= 56

\* Pad to 56 mod 64 without finishing a block
PadFits(r) == r < 56

\* a SHA256_Pad that copies the 0x80 byte of PAD only
PadLenOne(r) == 1

\* the number of bytes of PAD that pad to 56 mod 64
PadLen(r) == 56 - r

\* a SHA256_Pad that terminates with the count of bytes
PadLastBytes(Y) ==
  Then(BufWrite(Y, 56, be64enc(Y.ctx.count \div 8), 8),
       LAMBDA Z : [Compress(Z, Z.ctx.buf, TRUE) EXCEPT !.padruns = @ + 1])

\* the end of SHA256_Pad: add the terminating bit-count, and mix in the
\* final block
PadLast(Y) ==
  Then(BufWrite(Y, 56, be64enc(Y.ctx.count), 8),
       LAMBDA Z : [Compress(Z, Z.ctx.buf, TRUE) EXCEPT !.padruns = @ + 1])

\* SHA256_Pad(ctx, tmp32): add padding and terminating bit-count
SHA256_Pad(X) ==
  LET \* Figure out how many bytes we have buffered.
      r == (X.ctx.count \div 8) % 64
  IN IF PadFits(r)
     THEN \* Pad to 56 mod 64.
          PadLast(BufWrite(X, r, Bytes(PAD, 0, PadLen(r)), PadLen(r)))
     ELSE \* Finish the current block and mix.
          Then(BufWrite(X, r, Bytes(PAD, 0, 64 - r), 64 - r),
               LAMBDA X1 :
                 Then([Compress(X1, X1.ctx.buf, TRUE) EXCEPT !.padruns = @ + 1],
                      \* The start of the final block is all zeroes.
                      LAMBDA X2 : PadLast(BufWrite(X2, 0, [j \in 1..56 |-> 0], 56))))

\* _SHA256_Final(digest, ctx, tmp32): the context after the padding, and the
\* 32 bytes written to digest
_SHA256_Final(X) ==
  Then(\* Add padding.
       SHA256_Pad(X),
       \* Write the hash.
       LAMBDA Y : [X |-> Y, digest |-> be32enc_vect(Y.ctx.state, 4)])

\* the locals ctx and tmp32 of SHA256_Buf and SHA256d_Buf as declared: every
\* byte of ctx.buf holds the indeterminate value junk, and every word of tmp32
\* the four-byte word made of it
Locals(junk) ==
  [ctx |-> [state |-> [j \in 0..7 |-> <<257 * junk, 257 * junk>>],
            count |-> 0,
            buf |-> [k \in 0..63 |-> junk]],
   scratch |-> [tmp32 |-> [k \in 0..71 |-> <<257 * junk, 257 * junk>>],
                written |-> {}, stray |-> FALSE, unset |-> FALSE],
   blocks |-> <<>>, padruns |-> 0, bufw |-> {},
   bufStray |-> FALSE, bufUnset |-> FALSE, srcRead |-> 0]

\* SHA256_Buf(in, len, digest), on locals holding junk: the final context and
\* the digest
SHA256_Buf(in, len, junk) ==
  Then(SHA256_Init(Locals(junk)),
       LAMBDA X0 : Then(_SHA256_Update(X0, in, len), LAMBDA X1 : _SHA256_Final(X1)))

(***************************************************************************)
(* The state.                                                              *)
(*   pc      where the caller stands                                       *)
(*   msg     the message being hashed                                      *)
(*   pos     the number of bytes of msg fed to _SHA256_Update so far       *)
(*   chunks  the lengths handed to the _SHA256_Update calls made, in order *)
(*   junk    the value the uninitialised locals held                       *)
(*   cx      the hashing in progress: ctx, tmp32 and what was done to them *)
(*   digest  the caller's uint8_t digest[32]                               *)
(*   beyond  the value of the bytes that follow digest[32] in memory       *)
(*   d1      SpecD: the digest written by the first pass of SHA256d_Buf    *)
(*   prev    SpecT: the state[8] handed to the last SHA256_Transform       *)
(***************************************************************************)
VARIABLES pc, msg, pos, chunks, junk, cx, digest, beyond, d1, prev

vars == <<pc, msg, pos, chunks, junk, cx, digest, beyond, d1, prev>>

NoDigest == [k \in 0..31 |-> 0]

(***************************************************************************)
(* Spec: one context fed a message in chunks.  SHA256_Init, then any       *)
(* number of _SHA256_Update, then _SHA256_Final; SHA256_Buf is the run     *)
(* with a single _SHA256_Update of the whole message.                      *)
(***************************************************************************)
Init ==
  /\ pc = "hashing"
  /\ msg \in Messages
  /\ pos = 0
  /\ chunks = <<>>
  /\ junk \in Junk
  /\ cx = SHA256_Init(Locals(junk))
  /\ digest = [k \in 0..31 |-> junk]
  /\ beyond = 0
  /\ d1 = NoDigest
  /\ prev = initial_state

Update ==
  /\ pc = "hashing"
  /\ Len(chunks) < MaxUpdates
  /\ \E len \in ChunkLens \cup {Len(msg) - pos} :
       /\ pos + len <= Len(msg)
       /\ \E in \in {Input(msg, pos, len)} : cx' = _SHA256_Update(cx, in, len)
       /\ pos' = pos + len
       /\ chunks' = Append(chunks, len)
  /\ UNCHANGED <<pc, msg, junk, digest, beyond, d1, prev>>

Final ==
  /\ pc = "hashing"
  /\ pos = Len(msg)
  /\ \E F \in {_SHA256_Final(cx)} :
       /\ cx' = F.X
       /\ digest' = F.digest
  /\ pc' = "done"
  /\ UNCHANGED <<msg, pos, chunks, junk, beyond, d1, prev>>

Next == Update \/ Final

Spec == Init /\ [][Next]_vars

(***************************************************************************)
(* SpecT: SHA256_Transform applied to a chain of blocks from a given       *)
(* state.                                                                  *)
(***************************************************************************)
\* the states the chains start from
TStates ==
  {initial_state, [j \in 0..7 |-> <<0, 0>>], [j \in 0..7 |-> <<65535, 65535>>]}

\* the blocks compressed
TBlocks ==
  {[k \in 0..63 |-> 0], [k \in 0..63 |-> 255], [k \in 0..63 |-> (k * 29 + 3) % 256]}

InitT ==
  /\ pc = "transform"
  /\ msg = <<>>
  /\ pos = 0
  /\ chunks = <<>>
  /\ junk \in Junk
  /\ \E s \in TStates : cx = [Locals(junk) EXCEPT !.ctx.state = s]
  /\ digest = NoDigest
  /\ beyond = 0
  /\ d1 = NoDigest
  /\ prev = cx.ctx.state

Transform ==
  /\ pc = "transform"
  /\ Len(cx.blocks) < MaxChain
  /\ \E b \in TBlocks : cx' = Compress(cx, b, FALSE)
  /\ prev' = cx.ctx.state
  /\ UNCHANGED <<pc, msg, pos, chunks, junk, digest, beyond, d1>>

NextT == Transform

SpecT == InitT /\ [][NextT]_vars

(***************************************************************************)
(* SpecD: SHA256d_Buf(in, len, digest), statement by statement.  The       *)
(* second _SHA256_Update is handed the pointer digest and the length len   *)
(* of the message: past digest[31] it reads the memory that follows the    *)
(* buffer, which is not defined; it yields the bytes found there, or the   *)
(* read traps.                                                             *)
(***************************************************************************)
\* a second pass that is handed the length of the digest
SecondLenDigest(len) == 32

\* a second pass that is handed no more than the length of the digest
SecondLenCapped(len) == IF len > 32 THEN 32 ELSE len

\* the length handed to the second _SHA256_Update
SecondLen(len) == len

\* what _SHA256_Update finds at the pointer digest: the 32 bytes of the
\* buffer, then the bytes that follow it
AtDigest(n) == [j \in 1..n |-> IF j <= 32 THEN digest[j - 1] ELSE beyond]

InitD ==
  /\ pc = "L337"
  /\ msg \in MessagesD
  /\ pos = 0
  /\ chunks = <<>>
  /\ junk \in Junk
  /\ cx = Locals(junk)
  /\ digest = [k \in 0..31 |-> junk]
  /\ beyond \in Junk
  /\ d1 = NoDigest
  /\ prev = initial_state

D1_Init ==
  /\ pc = "L337"
  /\ cx' = SHA256_Init(cx)
  /\ pc' = "L338"
  /\ UNCHANGED <<msg, pos, chunks, junk, digest, beyond, d1, prev>>

D1_Update ==
  /\ pc = "L338"
  /\ cx' = _SHA256_Update(cx, msg, Len(msg))
  /\ pc' = "L339"
  /\ UNCHANGED <<msg, pos, chunks, junk, digest, beyond, d1, prev>>

D1_Final ==
  /\ pc = "L339"
  /\ \E F \in {_SHA256_Final(cx)} :
       /\ cx' = F.X
       /\ digest' = F.digest
       /\ d1' = F.digest
  /\ pc' = "L341"
  /\ UNCHANGED <<msg, pos, chunks, junk, beyond, prev>>

D2_Init ==
  /\ pc = "L341"
  /\ cx' = SHA256_Init(cx)
  /\ pc' = "L342"
  /\ UNCHANGED <<msg, pos, chunks, junk, digest, beyond, d1, prev>>

D2_Update ==
  /\ pc = "L342"
  /\ \E n \in {SecondLen(Len(msg))} :
       \E in \in {AtDigest(n)} : cx' = _SHA256_Update(cx, in, n)
  /\ pc' = "L343"
  /\ UNCHANGED <<msg, pos, chunks, junk, digest, beyond, d1, prev>>

D2_Trap ==
  /\ pc = "L342"
  /\ SecondLen(Len(msg)) > 32
  /\ pc' = "trap"
  /\ UNCHANGED <<msg, pos, chunks, junk, cx, digest, beyond, d1, prev>>

D2_Final ==
  /\ pc = "L343"
  /\ \E F \in {_SHA256_Final(cx)} :
       /\ cx' = F.X
       /\ digest' = F.digest
  /\ pc' = "return"
  /\ UNCHANGED <<msg, pos, chunks, junk, beyond, d1, prev>>

NextD == D1_Init \/ D1_Update \/ D1_Final \/ D2_Init \/ D2_Update \/ D2_Trap \/ D2_Final

SpecD == InitD /\ [][NextD]_vars


(***************************************************************************)
(* The properties checked.                                                 *)
(***************************************************************************)
\* SHA256_Buf on each message of Spec, for each value of the locals' junk
OneShot == [m \in Messages |-> [j \in Junk |-> SHA256_Buf(m, Len(m), j)]]

\* the digest as a sequence of 32 bytes
DigestSeq(d) == [j \in 1..32 |-> d[j - 1]]

\* the fill of ctx->buf
Fill == (cx.ctx.count \div 8) % 64

\* C1: streaming equivalence.  When _SHA256_Final has run on a context fed
\* the message in any chunks, the blocks handed to the compression function
\* are, in order, those SHA256_Buf hands it on the whole message, and the
\* digest is the one SHA256_Buf returns.
C1_StreamingEquivalence ==
  pc = "done" =>
    /\ cx.blocks = OneShot[msg][junk].X.blocks
    /\ digest = OneShot[msg][junk].digest

\* a message of 128 bytes fed as 55 bytes, an empty chunk, and 73 bytes that
\* straddle the end of the first block
C1_Witness ==
  /\ pc = "done"
  /\ chunks = <<55, 0, 73>>
  /\ Len(cx.blocks) = 3

\* the standard SHA-256 digests of the empty message and of "abc"
KAT_empty ==
  <<\he3, \hb0, \hc4, \h42, \h98, \hfc, \h1c, \h14,
    \h9a, \hfb, \hf4, \hc8, \h99, \h6f, \hb9, \h24,
    \h27, \hae, \h41, \he4, \h64, \h9b, \h93, \h4c,
    \ha4, \h95, \h99, \h1b, \h78, \h52, \hb8, \h55>>

KAT_abc ==
  <<\hba, \h78, \h16, \hbf, \h8f, \h01, \hcf, \hea,
    \h41, \h41, \h40, \hde, \h5d, \hae, \h22, \h23,
    \hb0, \h03, \h61, \ha3, \h96, \h17, \h7a, \h9c,
    \hb4, \h10, \hff, \h61, \hf2, \h00, \h15, \had>>

\* C2: known answers.  SHA256_Buf (SHA256_Init, one _SHA256_Update of the
\* whole message, _SHA256_Final) returns e3b0c442...b855 on the empty message
\* and ba7816bf...15ad on "abc".
C2_KnownAnswers ==
  pc = "done" /\ Len(chunks) = 1 =>
    /\ msg = <<>> =>
         /\ DigestSeq(digest) = KAT_empty
         /\ <<digest[0], digest[1], digest[2], digest[3]>> = <<\he3, \hb0, \hc4, \h42>>
         /\ <<digest[30], digest[31]>> = <<\hb8, \h55>>
    /\ msg = <<97, 98, 99>> =>
         /\ DigestSeq(digest) = KAT_abc
         /\ <<digest[0], digest[1], digest[2], digest[3]>> = <<\hba, \h78, \h16, \hbf>>
         /\ <<digest[30], digest[31]>> = <<\h15, \had>>

\* SHA256_Buf has returned on "abc"
C2_Witness ==
  /\ pc = "done"
  /\ msg = <<97, 98, 99>>
  /\ chunks = <<3>>
  /\ digest[0] = \hba

\* the 8 bytes of the 64-bit number x, most significant first (x < 2^31)
BE64(x) == [j \in 1..8 |-> IF j <= 4 THEN 0 ELSE (x \div (256^(8 - j))) % 256]

\* M || 0x80 || k zero bytes || BE64(8 * n), with k the smallest number that
\* makes the length a multiple of 64
Padded(M) ==
  LET n == Len(M)
      k == CHOOSE z \in 0..63 : (n + 1 + z + 8) % 64 = 0
  IN M \o <<128>> \o [j \in 1..k |-> 0] \o BE64(8 * n)

\* the 64-byte blocks of a sequence of bytes whose length is a multiple of 64
BlocksOf(P) == [b \in 1..(Len(P) \div 64) |-> [k \in 0..63 |-> P[64 * (b - 1) + k + 1]]]

\* C3: standard padding.  The blocks compressed by the Updates and the Final
\* are the blocks of the padded message; SHA256_Pad compresses once when the
\* fill is below 56 and twice otherwise; the last 8 bytes compressed are the
\* bit count, big-endian.
C3_StandardPadding ==
  pc = "done" =>
    /\ cx.blocks = BlocksOf(Padded(msg))
    /\ cx.padruns = IF Len(msg) % 64 < 56 THEN 1 ELSE 2
    /\ Bytes(cx.blocks[Len(cx.blocks)], 56, 8) = BE64(8 * Len(msg))

\* a message of 120 bytes fed in two chunks: the fill is 56, the padding takes
\* two blocks
C3_Witness ==
  /\ pc = "done"
  /\ Len(msg) = 120
  /\ Len(chunks) = 2
  /\ cx.padruns = 2
  /\ Len(cx.blocks) = 3

\* C4: the context invariant.  After SHA256_Init and any _SHA256_Update
\* calls, count is 8 times the bytes fed, the fill is below 64, buf[0..fill)
\* holds the last bytes fed, and floor(fed / 64) blocks were compressed.
C4_ContextInvariant ==
  pc = "hashing" =>
    /\ cx.ctx.count = 8 * pos
    /\ Fill < 64
    /\ Fill = pos % 64
    /\ \A k \in 0..(Fill - 1) : cx.ctx.buf[k] = msg[pos - Fill + k + 1]
    /\ Len(cx.blocks) = pos \div 64

\* two Updates that compress nothing (an empty one, and one below the room
\* left), after one that compressed a block and left none
C4_Witness ==
  /\ pc = "hashing"
  /\ chunks = <<64, 0, 1>>
  /\ Fill = 1
  /\ Len(cx.blocks) = 1

\* SHA256_Buf(m), the digest as a sequence
Hash(m) == DigestSeq(SHA256_Buf(m, Len(m), 0).digest)

\* C5: SHA256d_Buf feeds its second pass len(M) bytes read from the start of
\* the buffer holding d1 = Hash(M); the result is Hash(Hash(M)) only when
\* len(M) = 32, Hash of the empty message when len(M) = 0, and the hash of
\* the first len(M) bytes of d1 when 0 < len(M) < 32.
C5_SecondPassLength ==
  pc = "return" =>
    LET n == Len(msg)
        D1 == DigestSeq(d1)
        D2 == DigestSeq(digest)
        fed == [j \in 1..n |-> IF j <= 32 THEN D1[j] ELSE beyond]
    IN /\ D1 = Hash(msg)
       /\ cx.ctx.count = 8 * n
       /\ D2 = Hash(fed)
       /\ (D2 = Hash(D1)) <=> (n = 32)
       /\ n = 0 => D2 = Hash(<<>>)
       /\ (0 < n /\ n < 32) => D2 = Hash(SubSeq(D1, 1, n))

\* SHA256d_Buf has returned on a message of 3 bytes
C5_Witness ==
  /\ pc = "return"
  /\ Len(msg) = 3
  /\ cx.srcRead = 3

\* C6 as claimed: the second _SHA256_Update reads past digest[31] whenever
\* len(M) is not 32, and does not when it is.
C6_AsClaimed ==
  pc \in {"L343", "return"} =>
    /\ Len(msg) # 32 => cx.srcRead > 32
    /\ Len(msg) = 32 => cx.srcRead <= 32

\* C6: the second _SHA256_Update reads the first len(M) bytes at digest: it
\* reads past digest[31] exactly when len(M) > 32.
C6_ReadsPastDigest ==
  pc \in {"L343", "return"} =>
    /\ cx.srcRead = Len(msg)
    /\ cx.srcRead > 32 <=> Len(msg) > 32

\* the second _SHA256_Update has read 70 bytes at digest
C6_Witness ==
  /\ pc = "L343"
  /\ Len(msg) = 70
  /\ cx.srcRead = 70

\* C7 as claimed: 55 bytes are padded with one compression, and each of 56,
\* 63, 64 and 65 bytes with two.
C7_AsClaimed ==
  pc = "done" =>
    /\ Len(msg) = 55 => cx.padruns = 1
    /\ Len(msg) \in {56, 63, 64, 65} => cx.padruns = 2

\* C7: 55 bytes are padded with one compression and no extra block; 56 and
\* 63 bytes (fill 56 and 63) with two, the completed current block and then
\* a block of zeroes carrying the length; 64 and 65 bytes (fill 0 and 1)
\* with one, after the block compressed by _SHA256_Update.
C7_BoundaryPadding ==
  pc = "done" =>
    LET n == Len(msg)
        B == cx.blocks
    IN /\ n = 55 => cx.padruns = 1 /\ Len(B) = 1
       /\ n \in {56, 63} =>
            /\ cx.padruns = 2 /\ Len(B) = 2
            /\ B[1] = [k \in 0..63 |-> IF k < n THEN msg[k + 1]
                                       ELSE IF k = n THEN 128 ELSE 0]
            /\ \A k \in 0..55 : B[2][k] = 0
            /\ Bytes(B[2], 56, 8) = BE64(8 * n)
       /\ n \in {64, 65} => cx.padruns = 1 /\ Len(B) = 2

\* _SHA256_Final has padded a message of 64 bytes fed in two chunks
C7_Witness ==
  /\ pc = "done"
  /\ Len(msg) = 64
  /\ Len(chunks) = 2
  /\ cx.padruns = 1

\* C8: determinism.  No compression reads a byte of buf that was not written
\* since SHA256_Init, nor a scratch word it has not written, and the digest
\* is the same whatever the locals held.
C8_Determinism ==
  /\ ~cx.bufUnset
  /\ ~cx.scratch.unset
  /\ pc = "done" => \A j \in Junk : digest = OneShot[msg][j].digest

\* the empty message hashed on locals full of nonzero junk
C8_Witness ==
  /\ pc = "done"
  /\ msg = <<>>
  /\ junk = 165
  /\ cx.bufw = 0..63

\* the reference compression: ~x, Ch and Maj
RefNot(x) == <<65535 - x[1], 65535 - x[2]>>

RefCh(x, y, z) == Xor(And(x, y), And(RefNot(x), z))

RefMaj(x, y, z) == Or(Or(And(x, y), And(x, z)), And(y, z))

\* body(x, lo), then body(., lo + 1), ..., body(., hi - 1)
RECURSIVE RefFor(_, _, _, _)
RefFor(body(_, _), x, lo, hi) ==
  IF hi - lo = 1 THEN body(x, lo)
  ELSE Then(RefFor(body, x, lo, (lo + hi) \div 2),
            LAMBDA u : RefFor(body, u, (lo + hi) \div 2, hi))

\* the schedule: w[0..15] decoded from the block, w[i] from the recurrence
RefSchedule(block) ==
  RefFor(LAMBDA w, i :
           [w EXCEPT ![i] = Add(Add(Add(s1(w[i - 2]), w[i - 7]), s0(w[i - 15])), w[i - 16])],
         [i \in 0..63 |-> IF i < 16 THEN be32dec(block, 4 * i) ELSE <<0, 0>>],
         16, 64)

\* round i on v = <<a, b, c, d, e, f, g, h>>
RefRound(v, i, w) ==
  LET T1 == Add(Add(Add(Add(v[8], S1(v[5])), RefCh(v[5], v[6], v[7])), Krnd[i]), w[i])
  IN <<Add(Add(T1, S0(v[1])), RefMaj(v[1], v[2], v[3])), v[1], v[2], v[3],
       Add(v[4], T1), v[5], v[6], v[7]>>

\* rounds 0..63, then the feed-forward addition
RefCompress(state, block) ==
  Then(RefSchedule(block),
       LAMBDA w :
         Then(RefFor(LAMBDA v, i : RefRound(v, i, w), [j \in 1..8 |-> state[j - 1]], 0, 64),
              LAMBDA v : [j \in 0..7 |-> Add(state[j], v[j + 1])]))

\* C9: SHA256_Transform yields the state the reference compression yields.
C9_TransformIsReference ==
  Len(cx.blocks) > 0 =>
    cx.ctx.state = RefCompress(prev, cx.blocks[Len(cx.blocks)])

\* two blocks compressed in a row, the second from a state that is not one
\* of the start states
C9_Witness ==
  /\ pc = "transform"
  /\ Len(cx.blocks) = 2
  /\ prev \notin TStates

\* C10: no copy into ctx->buf leaves buf[0..63], and SHA256_Transform writes
\* and reads schedule words at W[0..63] only, each read after its write.
C10_NoStrayAccess ==
  /\ ~cx.bufStray
  /\ ~cx.scratch.stray
  /\ ~cx.scratch.unset
  /\ cx.bufw \subseteq 0..63
  /\ cx.scratch.written \subseteq 0..71

\* a hashing that went through every copy: an Update that filled the block
\* and left bytes over, and the two-block padding
C10_Witness ==
  /\ pc = "done"
  /\ chunks = <<55, 65>>
  /\ cx.padruns = 2
  /\ cx.scratch.written = 0..71

====
